---- MODULE Spec2Model ----
(***************************************************************************)
(* Model of scripts/generate_contract_param_methods.py: the generator of   *)
(* the add_int<N> / add_uint<N> / add_int<N>_array / add_uint<N>_array     *)
(* method stubs of ContractFunctionParameters.                             *)
(*                                                                         *)
(* A generated stub is a Python string built by concatenating literals     *)
(* with str(solidity_bit_width), str(solidity_bit_width//8) and a Rust     *)
(* type name.  The model keeps every stub as a record of the slots that    *)
(* the concatenation fills (doc, name, param, call, arg, sol, nbytes);     *)
(* Text renders the record to the exact string the script builds.  The     *)
(* output file is the sequence of strings handed to f.write.               *)
(***************************************************************************)
EXTENDS Integers, Sequences, FiniteSets, TLC

VARIABLES
    pc,                  \* position of the script: loop, open, write, close, done, raised
    i,                   \* index of bit_width in range(8, 257, 8)
    int_versions,        \* line 3
    uint_versions,       \* line 4
    int_array_versions,  \* line 6
    uint_array_versions, \* line 7
    f,                   \* the file object: unopened, open, closed
    loop,                \* which of the four write loops (lines 58-68) is running
    v,                   \* index of v in the list of the running write loop
    output,              \* output.txt on disk: [exists, data]
    runs                 \* how many times the script has been started

vars == <<pc, i, int_versions, uint_versions, int_array_versions,
          uint_array_versions, f, loop, v, output, runs>>

\* The script may be run again after it exits; MaxRuns caps the number of runs.
MaxRuns == 2

---------------------------------------------------------------------------
\* Python's str(int) for n >= 0: the decimal digits, most significant first.

DigitChars == <<"0", "1", "2", "3", "4", "5", "6", "7", "8", "9">>

RECURSIVE str(_)
str(n) == IF n < 10 THEN DigitChars[n + 1]
          ELSE str(n \div 10) \o DigitChars[(n % 10) + 1]

\* for bit_width in range(8, 257, 8)
RangeStart == 8
RangeStop == 257
RangeStep == 8

\* Python's range(start, stop, step) for step > 0, as a sequence.
range(start, stop, step) ==
    IF stop <= start THEN << >>
    ELSE [n \in 1..((stop - start + step - 1) \div step) |-> start + (n - 1) * step]

\* Mutant: the stop of the range taken as the last width, range(8, 256, 8).
BitWidthsStopAtLastWidth == range(RangeStart, RangeStop - 1, RangeStep)

BitWidths == range(RangeStart, RangeStop, RangeStep)

\* Mutant: the upper bounds compared with < in place of <=.
RustTypesStrictBounds(bit_width) ==
    IF bit_width < 8 THEN <<"i8", "u8">>
    ELSE IF bit_width < 16 THEN <<"i16", "u16">>
    ELSE IF bit_width < 32 THEN <<"i32", "u32">>
    ELSE IF bit_width < 64 THEN <<"i64", "u64">>
    ELSE IF bit_width < 128 THEN <<"i128", "u128">>
    ELSE <<"BigInt", "BigUint">>

\* The if/elif chain of lines 43-54: <<rust_signed_type, rust_unsigned_type>>.
RustTypes(bit_width) ==
    IF bit_width <= 8 THEN <<"i8", "u8">>
    ELSE IF bit_width <= 16 THEN <<"i16", "u16">>
    ELSE IF bit_width <= 32 THEN <<"i32", "u32">>
    ELSE IF bit_width <= 64 THEN <<"i64", "u64">>
    ELSE IF bit_width <= 128 THEN <<"i128", "u128">>
    ELSE <<"BigInt", "BigUint">>

\* Mutant: the width in bits passed where the byte count belongs.
BitCount(solidity_bit_width) == solidity_bit_width

\* solidity_bit_width//8
ByteCount(solidity_bit_width) == solidity_bit_width \div 8

\* The string appended to int_versions (lines 13-17).
IntVersion(solidity_bit_width, rust_signed_type) ==
    [article |-> "an",
     doc     |-> "int" \o str(solidity_bit_width),
     name    |-> "add_int" \o str(solidity_bit_width),
     param   |-> "val: " \o rust_signed_type,
     call    |-> "add_int",
     arg     |-> "&val",
     sol     |-> "int" \o str(solidity_bit_width),
     nbytes  |-> str(ByteCount(solidity_bit_width))]

\* The string appended to uint_versions (lines 20-24).
UintVersion(solidity_bit_width, rust_unsigned_type) ==
    [article |-> "a",
     doc     |-> "uint" \o str(solidity_bit_width),
     name    |-> "add_uint" \o str(solidity_bit_width),
     param   |-> "val: " \o rust_unsigned_type,
     call    |-> "add_int",
     arg     |-> "&val",
     sol     |-> "uint" \o str(solidity_bit_width),
     nbytes  |-> str(ByteCount(solidity_bit_width))]

\* The string appended to int_array_versions (lines 27-31).
IntArrayVersion(solidity_bit_width, rust_signed_type) ==
    [article |-> "an",
     doc     |-> "int" \o str(solidity_bit_width) \o "[]",
     name    |-> "add_int" \o str(solidity_bit_width) \o "_array",
     param   |-> "values: &[" \o rust_signed_type \o "]",
     call    |-> "add_int_array",
     arg     |-> "values",
     sol     |-> "int" \o str(solidity_bit_width) \o "[]",
     nbytes  |-> str(ByteCount(solidity_bit_width))]

\* Mutant: the body of the signed array stub left in the unsigned one.
UintArrayVersionPassingInt(solidity_bit_width, rust_unsigned_type) ==
    [article |-> "a",
     doc     |-> "uint" \o str(solidity_bit_width) \o "[]",
     name    |-> "add_uint" \o str(solidity_bit_width) \o "_array",
     param   |-> "values: &[" \o rust_unsigned_type \o "]",
     call    |-> "add_int_array",
     arg     |-> "values",
     sol     |-> "int" \o str(solidity_bit_width) \o "[]",
     nbytes  |-> str(ByteCount(solidity_bit_width))]

\* The string appended to uint_array_versions (lines 34-38).
UintArrayVersion(solidity_bit_width, rust_unsigned_type) ==
    [article |-> "a",
     doc     |-> "uint" \o str(solidity_bit_width) \o "[]",
     name    |-> "add_uint" \o str(solidity_bit_width) \o "_array",
     param   |-> "values: &[" \o rust_unsigned_type \o "]",
     call    |-> "add_int_array",
     arg     |-> "values",
     sol     |-> "uint" \o str(solidity_bit_width) \o "[]",
     nbytes  |-> str(ByteCount(solidity_bit_width))]

\* The grave accent (U+0060) of the doc comments.  A TLA+ string literal cannot
\* hold that character, so the model writes it as this token.
backtick == "[U+0060]"

\* The characters of a stub: the literals of lines 13-17 (20-24, 27-31, 34-38)
\* around the slots.
Text(s) ==
    "/// Add " \o s.article \o " " \o backtick \o s.doc \o backtick
        \o " argument to the " \o backtick \o "ContractFunctionParameters" \o backtick \o "\n"
        \o "#[allow(dead_code)]\n"
        \o "pub fn " \o s.name \o "(&mut self, " \o s.param \o ") -> &mut Self {\n"
        \o "    self." \o s.call \o "(" \o s.arg \o ", \"" \o s.sol \o "\", "
        \o s.nbytes \o ")\n"
        \o "}\n"

\* Mutant: list.insert(0, x).
insert0(list, x) == <<x>> \o list

\* list.append(x)
append(list, x) == Append(list, x)

---------------------------------------------------------------------------
\* output.txt before the first run: absent, empty, or holding unrelated text.
PriorContents ==
    { [exists |-> FALSE, data |-> << >>],
      [exists |-> TRUE,  data |-> << >>],
      [exists |-> TRUE,  data |-> <<"unrelated text\n">>] }

\* Mutant: open("output.txt", "a"), which keeps what the file holds.
OpenA(file) == [exists |-> TRUE, data |-> file.data]

\* open("output.txt", "w"): the file is created or truncated.
OpenW(file) == [exists |-> TRUE, data |-> << >>]

\* f.write(s): s goes to the end of the file.
write(file, s) == [file EXCEPT !.data = Append(@, s)]

\* Mutant: the lists written in the order they are declared and filled.
WriteOrderAsDeclared ==
    <<"int_versions", "uint_versions", "int_array_versions", "uint_array_versions">>

\* The order of the four write loops of lines 58-68.
WriteOrder == <<"int_versions", "int_array_versions", "uint_versions", "uint_array_versions">>

ListNamed(name) ==
    CASE name = "int_versions" -> int_versions
      [] name = "int_array_versions" -> int_array_versions
      [] name = "uint_versions" -> uint_versions
      [] name = "uint_array_versions" -> uint_array_versions

Init ==
    /\ pc = "loop"
    /\ i = 1
    /\ int_versions = << >>
    /\ uint_versions = << >>
    /\ int_array_versions = << >>
    /\ uint_array_versions = << >>
    /\ f = "unopened"
    /\ loop = 1
    /\ v = 1
    /\ output \in PriorContents
    /\ runs = 1

\* def add_methods_for_bit_width (lines 11-39)
add_methods_for_bit_width(solidity_bit_width, rust_signed_type, rust_unsigned_type) ==
    /\ int_versions' = append(int_versions, IntVersion(solidity_bit_width, rust_signed_type))
    /\ uint_versions' = append(uint_versions, UintVersion(solidity_bit_width, rust_unsigned_type))
    /\ int_array_versions' =
           append(int_array_versions, IntArrayVersion(solidity_bit_width, rust_signed_type))
    /\ uint_array_versions' =
           append(uint_array_versions, UintArrayVersion(solidity_bit_width, rust_unsigned_type))

\* One iteration of the loop of lines 42-54.
ForBitWidth ==
    /\ pc = "loop"
    /\ i <= Len(BitWidths)
    /\ LET bit_width == BitWidths[i]
           types == RustTypes(bit_width)
       IN  add_methods_for_bit_width(bit_width, types[1], types[2])
    /\ i' = i + 1
    /\ UNCHANGED <<pc, f, loop, v, output, runs>>

\* The range is exhausted: control reaches line 56.
EndFor ==
    /\ pc = "loop"
    /\ i > Len(BitWidths)
    /\ pc' = "open"
    /\ UNCHANGED <<i, int_versions, uint_versions, int_array_versions,
                   uint_array_versions, f, loop, v, output, runs>>

\* f = open("output.txt", "w") (line 56)
Open ==
    /\ pc = "open"
    /\ output' = OpenW(output)
    /\ f' = "open"
    /\ pc' = "write"
    /\ loop' = 1
    /\ v' = 1
    /\ UNCHANGED <<i, int_versions, uint_versions, int_array_versions,
                   uint_array_versions, runs>>

\* open raises OSError: nothing catches it, the interpreter exits with status 1.
OpenFails ==
    /\ pc = "open"
    /\ pc' = "raised"
    /\ UNCHANGED <<i, int_versions, uint_versions, int_array_versions,
                   uint_array_versions, f, loop, v, output, runs>>

\* f.write(v + "\n") in the running loop (lines 59, 62, 65, 68)
Write ==
    /\ pc = "write"
    /\ v <= Len(ListNamed(WriteOrder[loop]))
    /\ output' = write(output, Text(ListNamed(WriteOrder[loop])[v]) \o "\n")
    /\ v' = v + 1
    /\ UNCHANGED <<pc, i, int_versions, uint_versions, int_array_versions,
                   uint_array_versions, f, loop, runs>>

\* Mutant: the OSError of f.write caught and ignored, the loop going on.
WriteFailsIgnored ==
    /\ pc = "write"
    /\ v <= Len(ListNamed(WriteOrder[loop]))
    /\ v' = v + 1
    /\ UNCHANGED <<pc, i, int_versions, uint_versions, int_array_versions,
                   uint_array_versions, f, loop, output, runs>>

\* f.write raises OSError: nothing catches it, f.close() of line 70 is not reached.
WriteFails ==
    /\ pc = "write"
    /\ v <= Len(ListNamed(WriteOrder[loop]))
    /\ pc' = "raised"
    /\ UNCHANGED <<i, int_versions, uint_versions, int_array_versions,
                   uint_array_versions, f, loop, v, output, runs>>

\* A write loop ends: the next one starts, or control reaches line 70.
EndWriteLoop ==
    /\ pc = "write"
    /\ v > Len(ListNamed(WriteOrder[loop]))
    /\ IF loop < Len(WriteOrder)
       THEN loop' = loop + 1 /\ v' = 1 /\ pc' = pc
       ELSE loop' = loop /\ v' = v /\ pc' = "close"
    /\ UNCHANGED <<i, int_versions, uint_versions, int_array_versions,
                   uint_array_versions, f, output, runs>>

\* f.close() (line 70), then the script ends with status 0.
Close ==
    /\ pc = "close"
    /\ f' = "closed"
    /\ pc' = "done"
    /\ UNCHANGED <<i, int_versions, uint_versions, int_array_versions,
                   uint_array_versions, loop, v, output, runs>>

\* f.close() raises OSError (its flush failed): the file object is closed all the same.
CloseFails ==
    /\ pc = "close"
    /\ f' = "closed"
    /\ pc' = "raised"
    /\ UNCHANGED <<i, int_versions, uint_versions, int_array_versions,
                   uint_array_versions, loop, v, output, runs>>

\* The script is started again: a new process, the same output.txt.
Restart ==
    /\ pc \in {"done", "raised"}
    /\ runs < MaxRuns
    /\ runs' = runs + 1
    /\ pc' = "loop"
    /\ i' = 1
    /\ int_versions' = << >>
    /\ uint_versions' = << >>
    /\ int_array_versions' = << >>
    /\ uint_array_versions' = << >>
    /\ f' = "unopened"
    /\ loop' = 1
    /\ v' = 1
    /\ UNCHANGED output

Next ==
    \/ ForBitWidth
    \/ EndFor
    \/ Open
    \/ OpenFails
    \/ Write
    \/ WriteFails
    \/ EndWriteLoop
    \/ Close
    \/ CloseFails
    \/ Restart

Spec == Init /\ [][Next]_vars

\* The exit status of the interpreter: 1 after an uncaught exception, else 0.
ExitStatus == IF pc = "raised" THEN 1 ELSE 0

---------------------------------------------------------------------------
(***************************************************************************)
(* What the specification says the generator produces, stated without the  *)
(* script's own operators: the categories, the widths, the table of Rust   *)
(* types, and the names and Solidity types of a record.                    *)
(***************************************************************************)

Categories == <<"signed-scalar", "signed-array", "unsigned-scalar", "unsigned-array">>

SpecWidths == {8 * n : n \in 1..32}

IsSigned(cat) == cat \in {"signed-scalar", "signed-array"}

IsArray(cat) == cat \in {"signed-array", "unsigned-array"}

\* The in-memory sequence of a category.
Generated(cat) ==
    CASE cat = "signed-scalar" -> int_versions
      [] cat = "signed-array" -> int_array_versions
      [] cat = "unsigned-scalar" -> uint_versions
      [] cat = "unsigned-array" -> uint_array_versions

\* The (signed, unsigned) pair of a width, bucket by bucket.
TypeTable(w) ==
    CASE w = 8 -> <<"i8", "u8">>
      [] w = 16 -> <<"i16", "u16">>
      [] w \in {24, 32} -> <<"i32", "u32">>
      [] w \in {40, 48, 56, 64} -> <<"i64", "u64">>
      [] w \in {72, 80, 88, 96, 104, 112, 120, 128} -> <<"i128", "u128">>
      [] w \in {136 + 8 * n : n \in 0..15} -> <<"BigInt", "BigUint">>

ExpectedSol(cat, w) ==
    (IF IsSigned(cat) THEN "int" ELSE "uint") \o ToString(w)
        \o (IF IsArray(cat) THEN "[]" ELSE "")

ExpectedName(cat, w) ==
    "add_" \o (IF IsSigned(cat) THEN "int" ELSE "uint") \o ToString(w)
        \o (IF IsArray(cat) THEN "_array" ELSE "")

ExpectedParam(cat, w) ==
    LET ty == IF IsSigned(cat) THEN TypeTable(w)[1] ELSE TypeTable(w)[2]
    IN  IF IsArray(cat) THEN "values: &[" \o ty \o "]" ELSE "val: " \o ty

ExpectedStub(cat, w) ==
    [article |-> IF IsSigned(cat) THEN "an" ELSE "a",
     doc     |-> ExpectedSol(cat, w),
     name    |-> ExpectedName(cat, w),
     param   |-> ExpectedParam(cat, w),
     call    |-> IF IsArray(cat) THEN "add_int_array" ELSE "add_int",
     arg     |-> IF IsArray(cat) THEN "values" ELSE "&val",
     sol     |-> ExpectedSol(cat, w),
     nbytes  |-> ToString(w \div 8)]

\* What one f.write leaves in the file for the record of a category and width.
ExpectedChunk == [c \in 1..4, w \in SpecWidths |-> Text(ExpectedStub(Categories[c], w)) \o "\n"]

\* The whole file: the four blocks in order, each in ascending width order.
ExpectedOutput ==
    [k \in 1..128 |-> ExpectedChunk[((k - 1) \div 32) + 1, 8 * (((k - 1) % 32) + 1)]]

IsRecord(chunk) == \E c \in 1..4, w \in SpecWidths : ExpectedChunk[c, w] = chunk

\* <<block, width>> of a record of the file.
Key(chunk) == CHOOSE p \in (1..4) \X SpecWidths : ExpectedChunk[p[1], p[2]] = chunk

\* The indices of the records of a category that are named for width w.
RecordsFor(cat, w) ==
    {n \in DOMAIN Generated(cat) : Generated(cat)[n].name = ExpectedName(cat, w)}

Exited == pc \in {"done", "raised"}

---------------------------------------------------------------------------
\* C1: once the file is open, it holds only records, each one the successor of
\* the one before it: the next wider record of the same block, or the width-8
\* record of the next block right after the width-256 record of a block; the
\* first record is the signed-scalar one of width 8 and, after a successful run,
\* the last one is the unsigned-array one of width 256.
C1_BlocksInOrder ==
    f # "unopened" =>
        LET d == output.data
        IN  /\ \A k \in DOMAIN d : IsRecord(d[k])
            /\ Len(d) > 0 => Key(d[1]) = <<1, 8>>
            /\ \A k \in 1..(Len(d) - 1) :
                   LET a == Key(d[k])
                       b == Key(d[k + 1])
                   IN  \/ a[1] = b[1] /\ a[2] < b[2]
                       \/ b[1] = a[1] + 1 /\ a[2] = 256 /\ b[2] = 8
            /\ pc = "done" => Len(d) > 0 /\ Key(d[Len(d)]) = <<4, 256>>

C1_Witness ==
    /\ pc = "done"
    /\ Key(output.data[32]) = <<1, 256>>
    /\ Key(output.data[33]) = <<2, 8>>
    /\ Key(output.data[97]) = <<4, 8>>

C3_TypeMapping ==
    \A c \in 1..4 : \A w \in SpecWidths :
        LET cat == Categories[c]
        IN  /\ \A n \in RecordsFor(cat, w) :
                   Generated(cat)[n].param = ExpectedParam(cat, w)
            /\ pc \in {"open", "write", "close", "done"} => RecordsFor(cat, w) # {}

C3_Witness ==
    /\ pc = "open"
    /\ \E n \in RecordsFor("signed-scalar", 64) : int_versions[n].param = "val: i64"
    /\ \E n \in RecordsFor("unsigned-array", 64) :
           uint_array_versions[n].param = "values: &[u64]"
    /\ \E n \in RecordsFor("signed-array", 136) :
           int_array_versions[n].param = "values: &[BigInt]"

\* C4: every width the loop visits is a multiple of 8, and every record named for
\* it, in all four categories, passes width / 8 as the byte count: 1 for width 8,
\* 3 for width 24, 32 for width 256.
C4_ByteCount ==
    \A m \in DOMAIN BitWidths :
        LET w == BitWidths[m]
        IN  /\ w % 8 = 0
            /\ \A c \in 1..4 : \A n \in RecordsFor(Categories[c], w) :
                   LET b == Generated(Categories[c])[n].nbytes
                   IN  /\ b = ToString(w \div 8)
                       /\ w = 8 => b = "1"
                       /\ w = 24 => b = "3"
                       /\ w = 256 => b = "32"

C4_Witness ==
    /\ pc = "write"
    /\ \A c \in 1..4 :
           /\ \E n \in RecordsFor(Categories[c], 24) : Generated(Categories[c])[n].nbytes = "3"
           /\ \E n \in RecordsFor(Categories[c], 256) : Generated(Categories[c])[n].nbytes = "32"

\* The text of the width-24 signed-array record.
Int24ArrayText ==
    "/// Add an " \o backtick \o "int24[]" \o backtick \o " argument to the "
        \o backtick \o "ContractFunctionParameters" \o backtick \o "\n"
        \o "#[allow(dead_code)]\n"
        \o "pub fn add_int24_array(&mut self, values: &[i32]) -> &mut Self {\n"
        \o "    self.add_int_array(values, \"int24[]\", 3)\n"
        \o "}\n"

\* C5: every record of a category carries, for one width w, the name
\* add_<int|uint><w>[_array] of its category, documents and passes the Solidity
\* type <int|uint><w>[[]] of its category, and calls add_int when scalar and
\* add_int_array when an array; the third signed-array record reads as the
\* width-24 text.
C5_Naming ==
    /\ \A c \in 1..4 : \A n \in DOMAIN Generated(Categories[c]) :
           LET cat == Categories[c]
               r == Generated(cat)[n]
           IN  /\ \E w \in SpecWidths :
                      /\ r.name = ExpectedName(cat, w)
                      /\ r.doc = ExpectedSol(cat, w)
                      /\ r.sol = ExpectedSol(cat, w)
               /\ r.call = (IF IsArray(cat) THEN "add_int_array" ELSE "add_int")
               /\ r.arg = (IF IsArray(cat) THEN "values" ELSE "&val")
    /\ Len(int_array_versions) >= 3 => Text(int_array_versions[3]) = Int24ArrayText

C5_Witness ==
    /\ Len(uint_array_versions) >= 3
    /\ uint_array_versions[3].name = "add_uint24_array"
    /\ uint_array_versions[3].doc = "uint24[]"
    /\ int_array_versions[3].name = "add_int24_array"
    /\ int_array_versions[3].sol = "int24[]"

\* C6: whatever output.txt held when the run started, while the file is being
\* written it holds the records this run has written and nothing else, and after
\* a successful run, the first or a later one, it exists and holds the same 128
\* records.
C6_Idempotent ==
    /\ pc = "write" =>
           /\ output.exists
           /\ Len(output.data) = 32 * (loop - 1) + (v - 1)
    /\ pc = "done" => output = [exists |-> TRUE, data |-> ExpectedOutput]

C6_Witness ==
    /\ pc = "done"
    /\ runs = 2
    /\ output = [exists |-> TRUE, data |-> ExpectedOutput]

\* C7: a run that has raised stays raised and writes nothing more (the only step
\* left is a new run of the script); the step that raises writes nothing; a write
\* loop moves past a record only by writing it; and a run ends with status 0 only
\* with the file closed and all 128 records written.
C7_AbortOnFailure ==
    /\ [](Exited /\ ExitStatus = 0 => f = "closed" /\ Len(output.data) = 128)
    /\ [][/\ pc = "raised" =>
                 /\ output' = output
                 /\ pc' = "raised" \/ (pc' = "loop" /\ runs' = runs + 1)
          /\ pc' = "raised" => output' = output
          /\ pc = "write" /\ v' = v + 1 => Len(output'.data) = Len(output.data) + 1
          /\ pc' = "done" => pc = "close"]_vars

C7_Witness ==
    /\ pc = "raised"
    /\ f = "open"
    /\ Len(output.data) \in 1..127

\* C8: when a run has ended, normally or by an exception, its file object is not
\* left open; records are written only while it is open.
C8_ReleasedOnEveryExit ==
    /\ Exited => f # "open"
    /\ pc = "write" => f = "open"

\* C9: each of the four sequences holds, after k widths, the records named for
\* 8, 16, ..., 8k in that order; a step of a run only appends to them, and a
\* step after the loop leaves them as they are.
C9_AppendOnly ==
    /\ [](\A c \in 1..4 :
              /\ Len(Generated(Categories[c])) = i - 1
              /\ \A n \in DOMAIN Generated(Categories[c]) :
                     Generated(Categories[c])[n].name = ExpectedName(Categories[c], 8 * n))
    /\ [][\/ Exited /\ pc' = "loop"
          \/ /\ \A c \in 1..4 :
                    /\ Len(Generated(Categories[c])') >= Len(Generated(Categories[c]))
                    /\ SubSeq(Generated(Categories[c])', 1, Len(Generated(Categories[c])))
                           = Generated(Categories[c])
             /\ pc # "loop" =>
                    \A c \in 1..4 : Generated(Categories[c])' = Generated(Categories[c])]_vars

C9_Witness ==
    /\ pc = "done"
    /\ i = 33
    /\ \A c \in 1..4 : Generated(Categories[c])[32].name = ExpectedName(Categories[c], 256)

\* C10: no record for width 8 is appended to a sequence.
C10_NoEightBitVersions ==
    \A c \in 1..4 : RecordsFor(Categories[c], 8) = {}

====
